---- MODULE Spec2Model ----
(***************************************************************************)
(* Model of src/src/gerador_dados.py: the population pipeline of the       *)
(* edutech database.                                                       *)
(*                                                                         *)
(* Spec          popular(): the orchestrator, one action per stage, the    *)
(*               tables of the transaction and of the committed database.  *)
(* SpecCat       criar_categorias() called with every requested count.     *)
(* SpecMat       criar_matriculas() called with small pools and targets,   *)
(*               one action per iteration of its while loop.               *)
(* SpecProg      criar_progresso() called for the enrollments of a course  *)
(*               of 0..MaxAulasCurso lessons, one action per INSERT.       *)
(* SpecAval      criar_avaliacoes() called on a table of enrollments some  *)
(*               of which already have an evaluation.                      *)
(* SpecCur       criar_modulos_e_aulas() called for 0..MaxCursosCur        *)
(*               courses with every choice of bounds, one action per       *)
(*               INSERT.                                                   *)
(*                                                                         *)
(* Random draws (_rand.randint, _rand.random, _rand.choice, _rand.shuffle) *)
(* are nondeterministic choices.  Dates are day numbers.  Money is an      *)
(* integer number of cents.                                                *)
(***************************************************************************)
EXTENDS Integers, Sequences, FiniteSets, TLC

VARIABLES
    args,       \* argparse.Namespace handed to popular
    db,         \* committed (persisted) contents of the nine tables
    db_antes,   \* history: db when popular was called
    tx,         \* the tables as the open transaction sees them
    pc,         \* position of popular
    loc,        \* popular's local variables (the id lists of the stages)
    log,        \* history: the stages executed, in order
    commits,    \* history: number of conn.commit() calls
    erro,       \* exception in flight / re-raised to the caller ("none")
    cat,        \* frame of a call of criar_categorias
    curr,       \* frame of a call of criar_modulos_e_aulas
    mat,        \* frame of a call of criar_matriculas
    prog,       \* frame of a call of criar_progresso
    aval        \* frame of a call of criar_avaliacoes

\* the state of popular
orq == <<args, db, db_antes, tx, pc, loc, log, commits, erro>>

\* the frames of the generators called on their own
funcs == <<cat, curr, mat, prog, aval>>

vars == <<args, db, db_antes, tx, pc, loc, log, commits, erro, cat, curr, mat, prog, aval>>

----------------------------------------------------------------------------
(* Bounds of the model *)

\* largest value of --instrutores, --cursos, --alunos explored
MaxN == 1
\* largest value of --matriculas explored
MaxQ == 1
\* largest count requested from criar_categorias called on its own
MaxPedido == 9
\* number of steps between the sampled values of a random draw's range
Passos == 2
\* resolution of _rand.random(): it returns k / RandDen, 0 <= k < RandDen
RandDen == 7
\* largest number of students and of courses handed to criar_matriculas
MaxPool == 2
\* largest target handed to criar_matriculas
MaxQtd == 2
\* largest number of lessons of the course handed to criar_progresso
MaxAulasCurso == 4
\* largest number of enrollments handed to criar_progresso
MaxMatProg == 1
\* largest number of rows of edutech.matriculas criar_avaliacoes reads
MaxMatAval == 2
\* largest value of --min-modulos / --max-modulos explored
MaxMod == 1
\* largest value of --min-aulas / --max-aulas explored (the smallest is
\* MaxAula - 1)
MaxAula == 3

----------------------------------------------------------------------------
(* Helpers *)

Min2(a, b) == IF a <= b THEN a ELSE b

Max2(a, b) == IF a >= b THEN a ELSE b

\* _rand.randint(a, b): the values it can return; empty when it raises
\* ValueError (a > b)
randint(a, b) == a..b

Status == {"concluida", "ativa", "cancelada"}

\* sum of a sequence of integers
RECURSIVE Soma(_)
Soma(s) == IF s = <<>> THEN 0 ELSE Head(s) + Soma(Tail(s))

----------------------------------------------------------------------------
(* criar_categorias: the curated pool and the slice that is inserted *)

\* len(base): the curated (nome, descricao) pool; a name is its index
NumBase == 8

\* len(itens) for itens = base[: max(n, 5)]
MinCategorias == 5

NumItens(n) == Min2(NumBase, Max2(n, MinCategorias))

\* the sets of names base[: max(n, 5)] can hold after _rand.shuffle(base)
ItensPossiveis(n) == {S \in SUBSET (1..NumBase) : Cardinality(S) = NumItens(n)}

----------------------------------------------------------------------------
(* The tables.  A table whose columns no stage reads back is the number of *)
(* its rows (ids 1..n); categorias is the set of its names (UNIQUE);       *)
(* matriculas is the sequence of its rows (id = position); avaliacoes is   *)
(* the set of matricula_id (UNIQUE).                                       *)

TabelasVazias ==
    [categorias |-> {}, instrutores |-> 0, cursos |-> 0, modulos |-> 0,
     aulas |-> 0, alunos |-> 0, matriculas |-> <<>>, progresso |-> 0,
     avaliacoes |-> {}]

\* a database left by an earlier committed run
BancoPopulado ==
    [categorias |-> 1..MinCategorias, instrutores |-> 1, cursos |-> 1,
     modulos |-> 1, aulas |-> 3, alunos |-> 1,
     matriculas |-> <<[aluno |-> 1, curso |-> 1, status |-> "concluida"]>>,
     progresso |-> 3, avaliacoes |-> {1}]

\* a database whose rows were edited by hand: one category, one completed
\* enrollment that was never evaluated
BancoParcial ==
    [categorias |-> {1}, instrutores |-> 1, cursos |-> 1,
     modulos |-> 0, aulas |-> 0, alunos |-> 1,
     matriculas |-> <<[aluno |-> 1, curso |-> 1, status |-> "concluida"]>>,
     progresso |-> 0, avaliacoes |-> {}]

BancosIniciais == {TabelasVazias, BancoPopulado, BancoParcial}

\* parse_args: the values of the command line explored
Argumentos ==
    [reset : BOOLEAN, categorias : {7, 9}, instrutores : 0..MaxN,
     cursos : 0..MaxN, alunos : 0..MaxN, matriculas : 0..MaxQ,
     min_modulos : 0..MaxMod, max_modulos : 0..MaxMod,
     min_aulas : {0, MaxAula}, max_aulas : {0, MaxAula}]

LocaisVazios ==
    [cat_ids |-> {}, inst_ids |-> {}, curso_ids |-> {}, aulas_por_curso |-> <<>>,
     aluno_ids |-> {}, mat_ids |-> {}, prog_rows |-> 0, av_count |-> 0]

\* the ids RETURNING id yields for n rows appended to a table of `antes` rows
NovosIds(antes, n) == (antes + 1)..(antes + n)

----------------------------------------------------------------------------
(* popular: what each generator call can return, as far as the orchestrator *)
(* and the later stages read it                                            *)

\* criar_cursos raises IndexError (_rand.choice of an empty list) when it
\* has a course to create and one of the pools is empty
CursosLevanta(n, cat_ids, inst_ids) == n >= 1 /\ (cat_ids = {} \/ inst_ids = {})

\* criar_modulos_e_aulas, one course: the (modules, lessons) it can create
CurriculoDoCurso(a) ==
    {ml \in (0..MaxMod) \X (0..(MaxMod * MaxAula)) :
        /\ ml[1] \in randint(a.min_modulos, a.max_modulos)
        /\ IF ml[1] = 0 THEN ml[2] = 0
           ELSE /\ randint(a.min_aulas, a.max_aulas) # {}
                /\ ml[2] >= ml[1] * a.min_aulas
                /\ ml[2] <= ml[1] * a.max_aulas}

\* criar_modulos_e_aulas, one course: a _rand.randint raises ValueError
CurriculoDoCursoLevanta(a) ==
    \/ randint(a.min_modulos, a.max_modulos) = {}
    \/ /\ \E q \in randint(a.min_modulos, a.max_modulos) : q >= 1
       /\ randint(a.min_aulas, a.max_aulas) = {}

\* criar_matriculas: the rows it can insert, as (aluno, curso, status)
\* sequences: pairwise distinct pairs, at most qtd of them, at least one
\* when qtd > 0 (the first draw is always accepted)
MatriculasPossiveis(alunos, cursos, qtd) ==
    LET Linhas == [aluno : alunos, curso : cursos, status : Status]
        MaxM   == Min2(qtd, Cardinality(alunos) * Cardinality(cursos))
        MinM   == IF qtd > 0 THEN 1 ELSE 0
    IN  UNION {{s \in [1..m -> Linhas] :
                    \A i, j \in 1..m :
                        i # j => <<s[i].aluno, s[i].curso>> # <<s[j].aluno, s[j].curso>>}
               : m \in MinM..MaxM}

\* criar_matriculas raises IndexError (_rand.choice of an empty list)
MatriculasLevanta(alunos, cursos, qtd) == qtd > 0 /\ (alunos = {} \/ cursos = {})

\* len(aulas) for the course of an enrollment (aulas_por_curso.get(curso, []))
NumAulas(aulas_por_curso, curso) ==
    IF curso \in DOMAIN aulas_por_curso THEN aulas_por_curso[curso] ELSE 0

\* criar_progresso, one enrollment: the values of k; empty when randint raises
ValoresDeK(numAulas) == randint(3, Min2(10, numAulas))

\* criar_progresso: the total_rows it can return for enrollments whose
\* courses have ls[1], ls[2], ... lessons
RECURSIVE ProgressoTotais(_)
ProgressoTotais(ls) ==
    IF ls = <<>> THEN {0}
    ELSE IF Head(ls) = 0 THEN ProgressoTotais(Tail(ls))
    ELSE {k + t : k \in ValoresDeK(Head(ls)), t \in ProgressoTotais(Tail(ls))}

\* criar_progresso without `if not aulas: continue`: randint(3, 0) raises
ProgressoLevantaSemContinue(ls) == \E i \in 1..Len(ls) : ValoresDeK(ls[i]) = {}

\* criar_progresso raises ValueError for some enrollment
ProgressoLevanta(ls) == \E i \in 1..Len(ls) : ls[i] # 0 /\ ValoresDeK(ls[i]) = {}

\* criar_avaliacoes: the enrollments selected (status = 'concluida')
Concluidas(matriculas) ==
    {i \in 1..Len(matriculas) : matriculas[i].status = "concluida"}

----------------------------------------------------------------------------
(* popular: the orchestrator *)

\* the stage popular runs first: the TRUNCATE only under args.reset
PrimeiroEstagio(reset) == IF reset THEN "reset" ELSE "categorias"

\* mutant of Proximo: the evaluations are created before the progress rows
ProximoTrocado(e) ==
    CASE e = "reset"       -> "categorias"
      [] e = "categorias"  -> "instrutores"
      [] e = "instrutores" -> "cursos"
      [] e = "cursos"      -> "curriculo"
      [] e = "curriculo"   -> "alunos"
      [] e = "alunos"      -> "matriculas"
      [] e = "matriculas"  -> "avaliacoes"
      [] e = "avaliacoes"  -> "progresso"
      [] e = "progresso"   -> "commit"

\* the statement that follows a stage in the body of the try block
Proximo(e) ==
    CASE e = "reset"       -> "categorias"
      [] e = "categorias"  -> "instrutores"
      [] e = "instrutores" -> "cursos"
      [] e = "cursos"      -> "curriculo"
      [] e = "curriculo"   -> "alunos"
      [] e = "alunos"      -> "matriculas"
      [] e = "matriculas"  -> "progresso"
      [] e = "progresso"   -> "avaliacoes"
      [] e = "avaliacoes"  -> "commit"

Estagios ==
    {"reset", "categorias", "instrutores", "cursos", "curriculo", "alunos",
     "matriculas", "progresso", "avaliacoes"}

\* mutant of AposExcecao: the handler commits what the stages did so far
AposExcecaoCommit(d, t) == t

\* what is persisted once the except block has run: conn.rollback() keeps
\* the committed tables d and drops the transaction's t
AposExcecao(d, t) == d

\* what is persisted once conn.commit() has run
AposCommit(d, t) == t

\* the frame of a generator that is not being called on its own
Parado == [fase |-> "parado"]

Init ==
    /\ args \in Argumentos
    /\ db \in BancosIniciais
    /\ db_antes = db
    /\ tx = db
    /\ pc = "idle"
    /\ loc = LocaisVazios
    /\ log = <<>>
    /\ commits = 0
    /\ erro = "none"
    /\ cat = Parado
    /\ curr = Parado
    /\ mat = Parado
    /\ prog = Parado
    /\ aval = Parado

\* a stage ends normally: the next statement of the try block is reached
Segue(e) ==
    /\ pc' = Proximo(e)
    /\ log' = Append(log, e)
    /\ erro' = erro
    /\ UNCHANGED <<args, db, db_antes, commits>>
    /\ UNCHANGED funcs

\* a stage raises: control passes to the except block
Levanta(e, exc) ==
    /\ pc' = "except"
    /\ log' = Append(log, e)
    /\ erro' = exc
    /\ UNCHANGED <<args, db, db_antes, commits>>
    /\ UNCHANGED funcs

\* psycopg2.connect, autocommit = False, SET search_path
popular_inicio ==
    /\ pc = "idle"
    /\ pc' = PrimeiroEstagio(args.reset)
    /\ UNCHANGED <<args, db, db_antes, tx, loc, log, commits, erro>>
    /\ UNCHANGED funcs

\* TRUNCATE ... RESTART IDENTITY CASCADE, inside the transaction
popular_reset ==
    /\ pc = "reset"
    /\ tx' = TabelasVazias
    /\ UNCHANGED loc
    /\ Segue("reset")

\* cat_ids = criar_categorias(cur, args.categorias)
popular_categorias ==
    /\ pc = "categorias"
    /\ \E itens \in ItensPossiveis(args.categorias) :
          IF itens \cap tx.categorias = {}
          THEN /\ tx' = [tx EXCEPT !.categorias = @ \cup itens]
               /\ loc' = [loc EXCEPT !.cat_ids = 1..Cardinality(itens)]
               /\ Segue("categorias")
          ELSE \* UNIQUE (nome): the INSERT of a name already there fails
               /\ UNCHANGED <<tx, loc>>
               /\ Levanta("categorias", "UniqueViolation")

\* inst_ids = criar_instrutores(cur, args.instrutores)
popular_instrutores ==
    /\ pc = "instrutores"
    /\ tx' = [tx EXCEPT !.instrutores = @ + args.instrutores]
    /\ loc' = [loc EXCEPT !.inst_ids = NovosIds(tx.instrutores, args.instrutores)]
    /\ Segue("instrutores")

\* curso_ids = criar_cursos(cur, args.cursos, cat_ids, inst_ids)
popular_cursos ==
    /\ pc = "cursos"
    /\ IF CursosLevanta(args.cursos, loc.cat_ids, loc.inst_ids)
       THEN /\ UNCHANGED <<tx, loc>>
            /\ Levanta("cursos", "IndexError")
       ELSE /\ tx' = [tx EXCEPT !.cursos = @ + args.cursos]
            /\ loc' = [loc EXCEPT !.curso_ids = NovosIds(tx.cursos, args.cursos)]
            /\ Segue("cursos")

\* _, aulas_por_curso = criar_modulos_e_aulas(cur, curso_ids, ...)
popular_curriculo ==
    /\ pc = "curriculo"
    /\ \/ \E f \in [loc.curso_ids -> CurriculoDoCurso(args)] :
             LET cs == loc.curso_ids IN
             /\ tx' = [tx EXCEPT
                         !.modulos = @ + Soma([i \in 1..Cardinality(cs) |->
                                                f[tx.cursos - Cardinality(cs) + i][1]]),
                         !.aulas = @ + Soma([i \in 1..Cardinality(cs) |->
                                                f[tx.cursos - Cardinality(cs) + i][2]])]
             /\ loc' = [loc EXCEPT !.aulas_por_curso = [c \in cs |-> f[c][2]]]
             /\ Segue("curriculo")
       \/ /\ loc.curso_ids # {}
          /\ CurriculoDoCursoLevanta(args)
          /\ UNCHANGED <<tx, loc>>
          /\ Levanta("curriculo", "ValueError")

\* aluno_ids = criar_alunos(cur, args.alunos)
popular_alunos ==
    /\ pc = "alunos"
    /\ tx' = [tx EXCEPT !.alunos = @ + args.alunos]
    /\ loc' = [loc EXCEPT !.aluno_ids = NovosIds(tx.alunos, args.alunos)]
    /\ Segue("alunos")

\* mat_ids = criar_matriculas(cur, aluno_ids, curso_ids, args.matriculas)
popular_matriculas ==
    /\ pc = "matriculas"
    /\ IF MatriculasLevanta(loc.aluno_ids, loc.curso_ids, args.matriculas)
       THEN /\ UNCHANGED <<tx, loc>>
            /\ Levanta("matriculas", "IndexError")
       ELSE \E novas \in MatriculasPossiveis(loc.aluno_ids, loc.curso_ids,
                                               args.matriculas) :
               /\ tx' = [tx EXCEPT !.matriculas = @ \o novas]
               /\ loc' = [loc EXCEPT
                            !.mat_ids = NovosIds(Len(tx.matriculas), Len(novas))]
               /\ Segue("matriculas")

\* the lesson counts of the courses of the enrollments mat_ids, in order
AulasDasMatriculas ==
    LET antes == Len(tx.matriculas) - Cardinality(loc.mat_ids) IN
    [i \in 1..Cardinality(loc.mat_ids) |->
        NumAulas(loc.aulas_por_curso, tx.matriculas[antes + i].curso)]

\* prog_rows = criar_progresso(cur, mat_ids, aulas_por_curso)
popular_progresso ==
    /\ pc = "progresso"
    /\ IF ProgressoLevanta(AulasDasMatriculas)
       THEN /\ UNCHANGED <<tx, loc>>
            /\ Levanta("progresso", "ValueError")
       ELSE \E total \in ProgressoTotais(AulasDasMatriculas) :
               /\ tx' = [tx EXCEPT !.progresso = @ + total]
               /\ loc' = [loc EXCEPT !.prog_rows = total]
               /\ Segue("progresso")

\* av_count = criar_avaliacoes(cur)
popular_avaliacoes ==
    /\ pc = "avaliacoes"
    /\ LET novas == Concluidas(tx.matriculas) \ tx.avaliacoes IN
       /\ tx' = [tx EXCEPT !.avaliacoes = @ \cup novas]
       /\ loc' = [loc EXCEPT !.av_count = Cardinality(novas)]
    /\ Segue("avaliacoes")

\* cur.execute raises psycopg2.Error (a constraint, the connection): any
\* statement of any stage can
popular_erro_sql ==
    /\ pc \in Estagios
    /\ UNCHANGED <<tx, loc>>
    /\ Levanta(pc, "DatabaseError")

\* conn.commit()
popular_commit ==
    /\ pc = "commit"
    /\ db' = AposCommit(db, tx)
    /\ commits' = commits + 1
    /\ pc' = "finally"
    /\ UNCHANGED <<args, db_antes, tx, loc, log, erro>>
    /\ UNCHANGED funcs

\* except Exception: conn.rollback(); raise
popular_except ==
    /\ pc = "except"
    /\ db' = AposExcecao(db, tx)
    /\ tx' = db'
    /\ pc' = "finally"
    /\ UNCHANGED <<args, db_antes, loc, log, commits, erro>>
    /\ UNCHANGED funcs

\* finally: conn.close(); the exception, if any, reaches the caller
popular_finally ==
    /\ pc = "finally"
    /\ pc' = "fim"
    /\ UNCHANGED <<args, db, db_antes, tx, loc, log, commits, erro>>
    /\ UNCHANGED funcs

Next ==
    \/ popular_inicio
    \/ popular_reset
    \/ popular_categorias
    \/ popular_instrutores
    \/ popular_cursos
    \/ popular_curriculo
    \/ popular_alunos
    \/ popular_matriculas
    \/ popular_progresso
    \/ popular_avaliacoes
    \/ popular_erro_sql
    \/ popular_commit
    \/ popular_except
    \/ popular_finally

Spec == Init /\ [][Next]_vars

----------------------------------------------------------------------------
(* Claims about popular, checked under Spec *)

\* C1: when a stage of popular (the reset or a generator) raises, commit is
\* never called, the exception reaches the caller, the transaction is
\* rolled back, and the persisted tables are those from before the run,
\* also when the reset of that run had emptied them.
C1_TudoOuNada ==
    /\ erro # "none" => commits = 0 /\ db = db_antes
    /\ pc = "fim" /\ erro # "none" => tx = db_antes
    /\ pc = "fim" /\ commits = 0 => erro # "none" /\ db = db_antes

\* C1 witness: a run with --reset on a populated database that emptied the
\* tables, inserted rows and then failed in criar_matriculas, has ended
C1_Witness ==
    /\ pc = "fim"
    /\ erro = "IndexError"
    /\ args.reset
    /\ db_antes = BancoPopulado
    /\ log[Len(log)] = "matriculas"
    /\ args.cursos >= 1

\* the order of the stages the specification gives for a run
OrdemEsperada(reset) ==
    (IF reset THEN <<"reset">> ELSE <<>>) \o
    <<"categorias", "instrutores", "cursos", "curriculo", "alunos",
      "matriculas", "progresso", "avaliacoes">>

EhPrefixo(s, t) == Len(s) <= Len(t) /\ \A i \in 1..Len(s) : s[i] = t[i]

\* C2: the stages run in the fixed order, the reset first and only under
\* the reset flag; commit is called at most once, only after the
\* evaluations stage has completed, and always when a run ends normally.
C2_OrdemFixa ==
    /\ EhPrefixo(log, OrdemEsperada(args.reset))
    /\ commits <= 1
    /\ commits = 1 => log = OrdemEsperada(args.reset) /\ erro = "none"
    /\ pc = "fim" /\ erro = "none" => commits = 1

\* C2 witness: a run without --reset went through every stage, created
\* progress rows and committed
C2_Witness ==
    /\ pc = "fim"
    /\ commits = 1
    /\ ~args.reset
    /\ Len(log) = 8
    /\ db.progresso > db_antes.progresso

----------------------------------------------------------------------------
(* criar_categorias called on its own, on an empty table *)

Range(s) == {s[i] : i \in 1..Len(s)}

\* the names base[: k] can hold at index Len(antes) + 1 once _rand.shuffle
\* has put `antes` in front: a shuffle is a permutation, so any other name
ProximoItem(antes) == (1..NumBase) \ Range(antes)

\* the state of popular while a generator is called on its own
OrqParado ==
    /\ args = [reset |-> FALSE, categorias |-> 0, instrutores |-> 0, cursos |-> 0,
               alunos |-> 0, matriculas |-> 0, min_modulos |-> 0,
               max_modulos |-> 0, min_aulas |-> 0, max_aulas |-> 0]
    /\ db = TabelasVazias
    /\ db_antes = TabelasVazias
    /\ tx = TabelasVazias
    /\ pc = "idle"
    /\ loc = LocaisVazios
    /\ log = <<>>
    /\ commits = 0
    /\ erro = "none"

InitCat ==
    /\ OrqParado
    /\ cat \in [fase : {"loop"}, n : 0..MaxPedido, nomes : {<<>>}, ids : {<<>>}]
    /\ curr = Parado
    /\ mat = Parado
    /\ prog = Parado
    /\ aval = Parado

\* one iteration of `for nome, desc in itens`: INSERT ... RETURNING id
criar_categorias_insert ==
    /\ cat.fase = "loop"
    /\ Len(cat.nomes) < NumItens(cat.n)
    /\ \E nome \in ProximoItem(cat.nomes) :
          cat' = [cat EXCEPT !.nomes = Append(@, nome),
                             !.ids = Append(@, Len(cat.ids) + 1)]
    /\ UNCHANGED <<orq, curr, mat, prog, aval>>

\* return ids
criar_categorias_retorno ==
    /\ cat.fase = "loop"
    /\ Len(cat.nomes) = NumItens(cat.n)
    /\ cat' = [cat EXCEPT !.fase = "retorno"]
    /\ UNCHANGED <<orq, curr, mat, prog, aval>>

NextCat == criar_categorias_insert \/ criar_categorias_retorno


SpecCat == InitCat /\ [][NextCat]_vars

\* C3: criar_categorias inserts and returns exactly max(N, 5) categories
\* with pairwise distinct names, so the count is the requested one for
\* every N >= 5.
C3_ExatamenteMaxN5 ==
    cat.fase = "retorno" =>
        /\ Len(cat.ids) = Max2(cat.n, 5)
        /\ Len(cat.nomes) = Len(cat.ids)
        /\ \A i, j \in 1..Len(cat.nomes) : i # j => cat.nomes[i] # cat.nomes[j]
        /\ cat.n >= 5 => Len(cat.ids) = cat.n

----------------------------------------------------------------------------
(* Random draws and decimal arithmetic *)

\* the values of lo..hi a draw is sampled at: both ends and Passos - 1
\* values between them
Amostra(lo, hi) == {lo + ((hi - lo) * i) \div Passos : i \in 0..Passos}

\* _rand.random(): the numerators k of the values k / RandDen it returns
Random == 0..(RandDen - 1)

\* Decimal.quantize(..., rounding=ROUND_HALF_UP) of num / den >= 0
HalfUp(num, den) == (2 * num + den) \div (2 * den)

\* Decimal.quantize(...) of num / den >= 0 under the default context:
\* ROUND_HALF_EVEN
HalfEven(num, den) ==
    LET q == num \div den
        r == num % den
    IN  IF 2 * r < den THEN q
        ELSE IF 2 * r > den THEN q + 1
        ELSE IF q % 2 = 0 THEN q ELSE q + 1

\* criar_cursos: preco = money(49.9 + _rand.random() * 450), in cents, for
\* random() = k / RandDen
PrecoCurso(k) == HalfUp(4990 * RandDen + 45000 * k, RandDen)

\* the prices of edutech.cursos explored
PrecosExplorados == {PrecoCurso(k) : k \in Amostra(0, RandDen - 1)}

----------------------------------------------------------------------------
(* criar_matriculas called on its own.  Dates are days relative to         *)
(* datetime.now().date(); an absent date (None) is {}, a date d is {d}.    *)

\* mutant of JaEscolhido: the membership test is dropped
JaEscolhidoNunca(par, pares) == FALSE

\* if (aluno, curso) in pares
JaEscolhido(par, pares) == par \in pares

\* _rand.randint(0, 240): days between data_matricula and today
DiasMatricula == Amostra(0, 240)

\* mutant of DiasConclusao: the offset may be zero
DiasConclusaoDesdeZero == Amostra(0, 120)

\* _rand.randint(7, 120): days from data_matricula to data_conclusao
DiasConclusao == Amostra(7, 120)

\* the status drawn for r = _rand.random() = k / RandDen
StatusSorteado(k) ==
    IF 100 * k < 45 * RandDen THEN "concluida"
    ELSE IF 100 * k < 80 * RandDen THEN "ativa"
    ELSE "cancelada"

\* mutant of Uniforme02: the discount is drawn from [0, 0.3)
Uniforme03 == Amostra(0, 299)

\* _rand.uniform(0, 0.2), in thousandths: 0.2 * random() < 0.2
Uniforme02 == Amostra(0, 199)

\* Decimal(str(u)).quantize(Decimal("0.00")), in hundredths, of u thousandths
Desconto(u) == HalfEven(u, 10)

\* (precos[curso] * (Decimal("1.00") - desconto)).quantize(Decimal("0.01")),
\* in cents, for a price in cents and a discount in hundredths
ValorPago(preco, desconto) == HalfEven(preco * (100 - desconto), 100)

\* the statuses the thresholds 0.45 / 0.80 give for the values of random()
StatusPossiveis == {StatusSorteado(k) : k \in Random}

\* data_c for a status and an enrollment date
DatasConclusao(status, data_m) ==
    IF status = "concluida" THEN {{data_m + c} : c \in DiasConclusao} ELSE {{}}

\* the parameters of the INSERT for an accepted pair
LinhasPossiveis(aluno, curso, preco) ==
    UNION {{[aluno |-> aluno, curso |-> curso, data_m |-> 0 - d, data_c |-> dc,
             status |-> st, desconto |-> Desconto(u),
             valor_pago |-> ValorPago(preco, Desconto(u))] :
                dc \in DatasConclusao(st, 0 - d), u \in Uniforme02} :
           d \in DiasMatricula, st \in StatusPossiveis}

InitMat ==
    /\ OrqParado
    /\ cat = Parado
    /\ curr = Parado
    /\ \E na \in 0..MaxPool, nc \in 0..MaxPool, q \in 0..MaxQtd :
       \E pr \in [1..nc -> PrecosExplorados] :
          mat = [fase |-> "loop", alunos_ids |-> 1..na, curso_ids |-> 1..nc,
                 qtd |-> q, precos |-> pr, pares |-> {}, ids |-> <<>>,
                 inseridas |-> <<>>, tentativas_max |-> q * 6, sorteios |-> 0,
                 par |-> <<>>, linha |-> {}]
    /\ prog = Parado
    /\ aval = Parado

\* the head of one iteration of the while loop: the budget, the draw of
\* the pair, the test against pares
criar_matriculas_sorteio ==
    /\ mat.fase = "loop"
    /\ Len(mat.ids) < mat.qtd /\ mat.tentativas_max > 0
    /\ IF mat.alunos_ids = {} \/ mat.curso_ids = {}
       THEN \* _rand.choice of an empty sequence: IndexError
            mat' = [mat EXCEPT !.fase = "excecao", !.tentativas_max = @ - 1,
                               !.linha = {}]
       ELSE \E aluno \in mat.alunos_ids, curso \in mat.curso_ids :
              IF JaEscolhido(<<aluno, curso>>, mat.pares)
              THEN mat' = [mat EXCEPT !.tentativas_max = @ - 1,
                                      !.sorteios = @ + 1,
                                      !.linha = {}]
              ELSE mat' = [mat EXCEPT !.fase = "insert",
                                      !.tentativas_max = @ - 1,
                                      !.sorteios = @ + 1,
                                      !.pares = @ \cup {<<aluno, curso>>},
                                      !.par = <<aluno, curso>>,
                                      !.linha = {}]
    /\ UNCHANGED <<orq, cat, curr, prog, aval>>

\* the rest of the iteration for an accepted pair: the dates, the status,
\* the paid amount, INSERT ... RETURNING id
criar_matriculas_insert ==
    /\ mat.fase = "insert"
    /\ \E l \in LinhasPossiveis(mat.par[1], mat.par[2], mat.precos[mat.par[2]]) :
          mat' = [mat EXCEPT !.fase = "loop",
                             !.inseridas = Append(@, <<l.aluno, l.curso>>),
                             !.ids = Append(@, Len(mat.ids) + 1),
                             !.linha = {l}]
    /\ UNCHANGED <<orq, cat, curr, prog, aval>>

\* the while condition is false: return ids
criar_matriculas_retorno ==
    /\ mat.fase = "loop"
    /\ ~(Len(mat.ids) < mat.qtd /\ mat.tentativas_max > 0)
    /\ mat' = [mat EXCEPT !.fase = "retorno"]
    /\ UNCHANGED <<orq, cat, curr, prog, aval>>

NextMat ==
    \/ criar_matriculas_sorteio
    \/ criar_matriculas_insert
    \/ criar_matriculas_retorno

SpecMat == InitMat /\ [][NextMat]_vars

----------------------------------------------------------------------------
(* Claims about criar_matriculas, checked under SpecMat *)

\* C4: the enrollments one call inserts have pairwise distinct
\* (student, course) pairs: a pair drawn again is skipped, never inserted
\* a second time.
C4_ParesDistintos ==
    /\ \A i, j \in 1..Len(mat.inseridas) :
          i # j => mat.inseridas[i] # mat.inseridas[j]
    /\ Len(mat.inseridas) = Len(mat.ids)
    /\ mat.fase = "insert" => mat.par \notin Range(mat.inseridas)

\* C4 witness: a call returned two enrollments after a draw that repeated
\* an accepted pair was skipped
C4_Witness ==
    /\ mat.fase = "retorno"
    /\ Len(mat.inseridas) = 2
    /\ mat.sorteios > Len(mat.ids)

\* C5: criar_matriculas makes at most 6 * Q draws, returns at most Q
\* enrollments, exactly Q unless the budget ran out, and never raises,
\* whatever the size of the pools.
C5_OrcamentoSemErro ==
    /\ mat.fase \in {"loop", "insert", "retorno", "excecao"} =>
          /\ mat.sorteios <= 6 * mat.qtd
          /\ Len(mat.ids) <= mat.qtd
    /\ mat.fase = "retorno" =>
          Len(mat.ids) = mat.qtd \/ mat.sorteios = 6 * mat.qtd
    /\ mat.fase # "excecao"

\* C6: a completed enrollment has a completion date strictly after its
\* enrollment date; an active or cancelled one has none.
C6_DataConclusao ==
    \A l \in mat.linha :
        /\ l.status = "concluida" =>
              l.data_c # {} /\ \A c \in l.data_c : c > l.data_m
        /\ l.status \in {"ativa", "cancelada"} => l.data_c = {}

\* C6 witness: a completed enrollment was inserted with the smallest offset
C6_Witness ==
    \E l \in mat.linha : l.status = "concluida" /\ l.data_c = {l.data_m + 7}

\* C10: the paid amount of an enrollment lies between 0.80 x the stored
\* price of its course, rounded to cents, and that price, inclusive: it is
\* the price times (1 - discount), rounded to cents, for a discount of
\* 0.00 to 0.20.
C10_ValorPago ==
    \A l \in mat.linha :
        LET preco == mat.precos[l.curso] IN
        /\ HalfUp(80 * preco, 100) <= l.valor_pago
        /\ l.valor_pago <= preco
        /\ l.desconto \in 0..20
        /\ 200 * l.valor_pago - 100 <= 2 * preco * (100 - l.desconto)
        /\ 2 * preco * (100 - l.desconto) <= 200 * l.valor_pago + 100

\* C10 witness: an enrollment got the largest discount and paid exactly
\* 0.80 x the price of its course, which is below the price
C10_Witness ==
    \E l \in mat.linha :
        /\ l.desconto = 20
        /\ l.valor_pago = HalfUp(80 * mat.precos[l.curso], 100)
        /\ l.valor_pago < mat.precos[l.curso]

----------------------------------------------------------------------------
(* criar_progresso called on its own: one course (id 1), its lessons        *)
(* (aula_id = position, with a duration), and enrollments in that course.   *)

\* _rand.randint(5, 45): duracao_minutos of a lesson (criar_modulos_e_aulas)
Duracoes == {5, 45}

\* the lists of (aula_id, duracao) of a course: aula_id is the position
ListasDeAulas == UNION {[1..n -> Duracoes] : n \in 0..MaxAulasCurso}

\* aulas_por_curso as criar_modulos_e_aulas returns it for course 1: a
\* course without lessons has no key (setdefault is never reached)
MapaDeAulas(aulas) == IF aulas = <<>> THEN <<>> ELSE <<aulas>>

\* aulas_por_curso.get(curso_id, [])
AulasDoCurso(aulas_por_curso, curso) ==
    IF curso \in DOMAIN aulas_por_curso THEN aulas_por_curso[curso] ELSE <<>>

\* info[m_id]: (curso_id, data_matricula, status) as criar_matriculas stores
\* them, for the earliest enrollment date
InfoPossiveis == [curso : {1}, data_m : {0 - 240}, status : Status]

\* mutant of Concluida: a cancelled enrollment can complete a lesson
ConcluidaSemStatus(t, dur, status) == t = dur

\* concluida = (t == int(dur)) and (status != "cancelada")
Concluida(t, dur, status) == t = dur /\ status # "cancelada"

\* _rand.randint(0, int(dur)): tempo_assistido_minutos
TemposAssistidos(dur) == Amostra(0, dur)

\* data_c: data_m + timedelta(days=_rand.randint(1, 90)) if concluida
DatasProgresso(concluida, data_m) ==
    IF concluida THEN {{data_m + c} : c \in Amostra(1, 90)} ELSE {{}}

\* _rand.sample(aulas, k): the lessons its next element can be, given the
\* ones it already yielded (a sample is without replacement)
ProximaAula(aulas, vistas) == (1..Len(aulas)) \ vistas

InitProg ==
    /\ OrqParado
    /\ cat = Parado
    /\ curr = Parado
    /\ mat = Parado
    /\ \E aulas \in ListasDeAulas, n \in 0..MaxMatProg :
       \E info \in [1..n -> InfoPossiveis] :
          prog = [fase |-> "loop", aulas_por_curso |-> MapaDeAulas(aulas),
                  info |-> info, i |-> 0,
                  k |-> 0, vistas |-> {}, n_linhas |-> 0, linha |-> {},
                  total_rows |-> 0]
    /\ aval = Parado

\* the head of one iteration of `for m_id in matricula_ids`: the lookup of
\* the lessons, the draw of k
criar_progresso_matricula ==
    /\ prog.fase = "loop"
    /\ prog.i < Len(prog.info)
    /\ LET aulas == AulasDoCurso(prog.aulas_por_curso, prog.info[prog.i + 1].curso)
           comum == [prog EXCEPT !.i = @ + 1, !.k = 0, !.vistas = {},
                                 !.n_linhas = 0, !.linha = {}]
       IN  IF aulas = <<>>
           THEN \* if not aulas: continue
                prog' = comum
           ELSE IF ValoresDeK(Len(aulas)) = {}
           THEN \* _rand.randint(3, min(10, len(aulas))): ValueError
                prog' = [comum EXCEPT !.fase = "excecao"]
           ELSE \E k \in ValoresDeK(Len(aulas)) :
                  prog' = [comum EXCEPT !.fase = "aulas", !.k = k]
    /\ UNCHANGED <<orq, cat, curr, mat, aval>>

\* one iteration of `for aula_id, dur in _rand.sample(aulas, k)`: a lesson
\* not sampled yet, the watched minutes, the INSERT
criar_progresso_aula ==
    /\ prog.fase = "aulas"
    /\ LET m == prog.info[prog.i]
           aulas == AulasDoCurso(prog.aulas_por_curso, m.curso)
       IN  \E aula_id \in ProximaAula(aulas, prog.vistas) :
           \E t \in TemposAssistidos(aulas[aula_id]) :
           \E dc \in DatasProgresso(Concluida(t, aulas[aula_id], m.status), m.data_m) :
              prog' = [prog EXCEPT
                         !.fase = IF prog.n_linhas + 1 = prog.k THEN "loop" ELSE "aulas",
                         !.vistas = @ \cup {aula_id},
                         !.n_linhas = @ + 1,
                         !.total_rows = @ + 1,
                         !.linha = {[matricula_id |-> prog.i, aula_id |-> aula_id,
                                     concluida |-> Concluida(t, aulas[aula_id], m.status),
                                     data_c |-> dc, t |-> t]}]
    /\ UNCHANGED <<orq, cat, curr, mat, aval>>

\* return total_rows
criar_progresso_retorno ==
    /\ prog.fase = "loop"
    /\ prog.i = Len(prog.info)
    /\ prog' = [prog EXCEPT !.fase = "retorno"]
    /\ UNCHANGED <<orq, cat, curr, mat, aval>>

NextProg ==
    \/ criar_progresso_matricula
    \/ criar_progresso_aula
    \/ criar_progresso_retorno

SpecProg == InitProg /\ [][NextProg]_vars

----------------------------------------------------------------------------
(* Claims about criar_progresso, checked under SpecProg *)

\* the lessons of the course of the enrollment a progress row belongs to
AulasDaLinha(l) == AulasDoCurso(prog.aulas_por_curso, prog.info[l.matricula_id].curso)

\* C7: in every progress row the watched minutes are between 0 and the
\* duration of the lesson; the row is completed exactly when the watched
\* minutes equal the duration and the enrollment is not cancelled; its
\* completion date is present exactly when it is completed.
C7_LinhaDeProgresso ==
    \A l \in prog.linha :
        LET dur == AulasDaLinha(l)[l.aula_id]
            status == prog.info[l.matricula_id].status
        IN  /\ 0 <= l.t /\ l.t <= dur
            /\ l.concluida <=> (l.t = dur /\ status # "cancelada")
            /\ l.data_c # {} <=> l.concluida

\* C7 witness: a cancelled enrollment watched a lesson to its end and the
\* row is not completed and has no completion date
C7_Witness ==
    \E l \in prog.linha :
        /\ l.t = AulasDaLinha(l)[l.aula_id]
        /\ prog.info[l.matricula_id].status = "cancelada"
        /\ ~l.concluida
        /\ l.data_c = {}

\* C8: for an enrollment whose course has L >= 1 lessons, criar_progresso
\* creates k rows for k different lessons of the course, 3 <= k <=
\* min(10, L), and never raises.
C8_KAulasSemErro ==
    /\ prog.fase # "excecao"
    /\ prog.fase \in {"loop", "retorno"} /\ prog.i >= 1 =>
          LET aulas == AulasDoCurso(prog.aulas_por_curso, prog.info[prog.i].curso)
          IN  Len(aulas) >= 1 =>
                /\ prog.n_linhas = prog.k
                /\ 3 <= prog.k /\ prog.k <= Min2(10, Len(aulas))
                /\ Cardinality(prog.vistas) = prog.k
                /\ prog.vistas \subseteq 1..Len(aulas)

----------------------------------------------------------------------------
(* criar_avaliacoes called on its own.  edutech.avaliacoes is the sequence *)
(* of its rows in insertion order.                                         *)

\* the rows of edutech.matriculas explored: (status, data_conclusao); a
\* completed row written by hand may have no completion date
MatriculasLidas ==
    {[status |-> "concluida", data_c |-> {0 - 100}],
     [status |-> "concluida", data_c |-> {}],
     [status |-> "ativa", data_c |-> {}],
     [status |-> "cancelada", data_c |-> {}]}

\* an evaluation an earlier run left for enrollment m
AvaliacaoAntiga(m) == [matricula_id |-> m, nota |-> 5, data_av |-> 0 - 50]

\* the elements of a set of integers in ascending order
RECURSIVE EmOrdem(_)
EmOrdem(S) ==
    IF S = {} THEN <<>>
    ELSE LET x == CHOOSE y \in S : \A z \in S : y <= z
         IN  <<x>> \o EmOrdem(S \ {x})

\* ON CONFLICT (matricula_id): a row for the enrollment is already there
Conflito(avaliacoes, mat_id) ==
    \E i \in 1..Len(avaliacoes) : avaliacoes[i].matricula_id = mat_id

\* mutant of Rowcount: every attempt is counted
RowcountSempreUm(conflito) == 1

\* cur.rowcount after INSERT ... ON CONFLICT DO NOTHING
Rowcount(conflito) == IF conflito THEN 0 ELSE 1

\* the offset taken from the date instead of added to it
DatasAvaliacaoSubtrai(data_c) ==
    {(IF data_c = {} THEN 0 ELSE CHOOSE d \in data_c : TRUE) - c : c \in Amostra(0, 60)}

\* (data_c or datetime.now().date()) + timedelta(days=_rand.randint(0, 60))
DatasAvaliacao(data_c) ==
    {(IF data_c = {} THEN 0 ELSE CHOOSE d \in data_c : TRUE) + c : c \in Amostra(0, 60)}

InitAval ==
    /\ OrqParado
    /\ cat = Parado
    /\ curr = Parado
    /\ mat = Parado
    /\ prog = Parado
    /\ \E n \in 0..MaxMatAval :
       \E ms \in [1..n -> MatriculasLidas] :
       \E avaliadas \in SUBSET Concluidas(ms) :
          aval = [fase |-> "select", matriculas |-> ms,
                  antes |-> [i \in 1..Cardinality(avaliadas) |->
                                AvaliacaoAntiga(EmOrdem(avaliadas)[i])],
                  avaliacoes |-> [i \in 1..Cardinality(avaliadas) |->
                                     AvaliacaoAntiga(EmOrdem(avaliadas)[i])],
                  concluidas |-> <<>>, j |-> 0, rowcount |-> 0, inseridas |-> 0]

\* SELECT ... WHERE status = 'concluida'; concluidas = cur.fetchall()
criar_avaliacoes_select ==
    /\ aval.fase = "select"
    /\ aval' = [aval EXCEPT !.fase = "loop",
                            !.concluidas = EmOrdem(Concluidas(aval.matriculas))]
    /\ UNCHANGED <<orq, cat, curr, mat, prog>>

\* one iteration of `for mat_id, curso_id, data_c in concluidas`
criar_avaliacoes_insert ==
    /\ aval.fase = "loop"
    /\ aval.j < Len(aval.concluidas)
    /\ LET mat_id == aval.concluidas[aval.j + 1]
           conflito == Conflito(aval.avaliacoes, mat_id)
       IN  \E nota \in Amostra(1, 5),
              data_av \in DatasAvaliacao(aval.matriculas[mat_id].data_c) :
             aval' = [aval EXCEPT
                        !.j = @ + 1,
                        !.avaliacoes =
                            IF conflito THEN @
                            ELSE Append(@, [matricula_id |-> mat_id, nota |-> nota,
                                            data_av |-> data_av]),
                        !.rowcount = Rowcount(conflito),
                        !.inseridas = @ + Rowcount(conflito)]
    /\ UNCHANGED <<orq, cat, curr, mat, prog>>

\* return inseridas
criar_avaliacoes_retorno ==
    /\ aval.fase = "loop"
    /\ aval.j = Len(aval.concluidas)
    /\ aval' = [aval EXCEPT !.fase = "retorno"]
    /\ UNCHANGED <<orq, cat, curr, mat, prog>>

NextAval ==
    \/ criar_avaliacoes_select
    \/ criar_avaliacoes_insert
    \/ criar_avaliacoes_retorno

SpecAval == InitAval /\ [][NextAval]_vars

----------------------------------------------------------------------------
(* Claims about criar_avaliacoes, checked under SpecAval *)

\* C9: every evaluation belongs to a completed enrollment and no
\* enrollment has two; an attempt for an enrollment that already has one
\* changes nothing, and the returned count is the number of rows the call
\* inserted: the suppressed attempts are not counted.
C9_UmaPorConcluida ==
    /\ \A i \in 1..Len(aval.avaliacoes) :
          aval.matriculas[aval.avaliacoes[i].matricula_id].status = "concluida"
    /\ \A i, k \in 1..Len(aval.avaliacoes) :
          i # k => aval.avaliacoes[i].matricula_id # aval.avaliacoes[k].matricula_id
    /\ SubSeq(aval.avaliacoes, 1, Len(aval.antes)) = aval.antes
    /\ aval.inseridas = Len(aval.avaliacoes) - Len(aval.antes)
    /\ aval.inseridas =
          Cardinality({i \in 1..aval.j : ~Conflito(aval.antes, aval.concluidas[i])})
    /\ aval.fase = "retorno" =>
          \A m \in Concluidas(aval.matriculas) : Conflito(aval.avaliacoes, m)

\* C9 witness: the call returned 1 after two attempts, one of them for an
\* enrollment that already had an evaluation
C9_Witness ==
    /\ aval.fase = "retorno"
    /\ aval.j = 2
    /\ Len(aval.antes) = 1
    /\ aval.inseridas = 1

----------------------------------------------------------------------------
(* criar_modulos_e_aulas called on its own: the courses 1..n, new in the    *)
(* database (popular hands it the ids criar_cursos has just returned), and  *)
(* every choice of the four bounds.  Of a row only the columns the ids and  *)
(* the order numbers depend on are kept (titles, descriptions and the       *)
(* lesson type are free text and a free draw).                              *)

\* the number of courses handed to criar_modulos_e_aulas
MaxCursosCur == 2

\* the largest value of min_mod and max_mod
MaxModCur == 2

\* the largest value of min_aula and max_aula
MaxAulaCur == 2

\* range(a, b) ending one short of its values: what range(b - 1) gives
rangeDesdeZero(a, b) == [i \in 1..Max2(b - a, 0) |-> a + i - 2]

\* range(a, b), as the sequence of the values the for loop takes
range(a, b) == [i \in 1..Max2(b - a, 0) |-> a + i - 1]

\* aulas_por_curso.setdefault(curso_id, []).append(par)
SetDefaultAppend(d, curso_id, par) ==
    [c \in DOMAIN d \cup {curso_id} |->
        IF c = curso_id
        THEN IF c \in DOMAIN d THEN Append(d[c], par) ELSE <<par>>
        ELSE d[c]]

InitCur ==
    /\ OrqParado
    /\ cat = Parado
    /\ \E n \in 0..MaxCursosCur, min_mod, max_mod \in 0..MaxModCur,
          min_aula, max_aula \in 0..MaxAulaCur :
          curr = [fase |-> "curso",
                  curso_ids |-> [i \in 1..n |-> i],
                  min_mod |-> min_mod, max_mod |-> max_mod,
                  min_aula |-> min_aula, max_aula |-> max_aula,
                  i |-> 0,                 \* courses taken from curso_ids
                  q_mod |-> 0, jm |-> 0,   \* jm: values taken from range(1, q_mod + 1)
                  modulo_id |-> 0,
                  modulo_ids |-> <<>>,
                  q_aulas |-> 0, ja |-> 0, \* ja: values taken from range(1, q_aulas + 1)
                  modulos |-> <<>>,        \* edutech.modulos, in id order
                  aulas |-> <<>>,          \* edutech.aulas, in id order
                  modulo_ids_por_curso |-> <<>>,
                  aulas_por_curso |-> <<>>]
    /\ mat = Parado
    /\ prog = Parado
    /\ aval = Parado

\* for curso_id in curso_ids: q_mod = _rand.randint(min_mod, max_mod)
criar_modulos_e_aulas_curso ==
    /\ curr.fase = "curso"
    /\ curr.i < Len(curr.curso_ids)
    /\ IF randint(curr.min_mod, curr.max_mod) = {}
       THEN curr' = [curr EXCEPT !.i = @ + 1, !.fase = "excecao"]
       ELSE \E q \in randint(curr.min_mod, curr.max_mod) :
               curr' = [curr EXCEPT !.i = @ + 1, !.fase = "modulo", !.q_mod = q,
                                    !.jm = 0, !.modulo_ids = <<>>]
    /\ UNCHANGED <<orq, cat, mat, prog, aval>>

\* for ordem_m in range(1, q_mod + 1): INSERT INTO edutech.modulos,
\* modulo_ids.append, q_aulas = _rand.randint(min_aula, max_aula)
criar_modulos_e_aulas_modulo ==
    /\ curr.fase = "modulo"
    /\ curr.jm < Len(range(1, curr.q_mod + 1))
    /\ LET ordem_m   == range(1, curr.q_mod + 1)[curr.jm + 1]
           modulo_id == Len(curr.modulos) + 1
           linha     == [id |-> modulo_id, curso_id |-> curr.curso_ids[curr.i],
                         ordem |-> ordem_m]
           inserido  == [curr EXCEPT !.jm = @ + 1,
                                     !.modulos = Append(@, linha),
                                     !.modulo_id = modulo_id,
                                     !.modulo_ids = Append(@, modulo_id)]
       IN  IF randint(curr.min_aula, curr.max_aula) = {}
           THEN curr' = [inserido EXCEPT !.fase = "excecao"]
           ELSE \E q \in randint(curr.min_aula, curr.max_aula) :
                   curr' = [inserido EXCEPT !.fase = "aula", !.q_aulas = q, !.ja = 0]
    /\ UNCHANGED <<orq, cat, mat, prog, aval>>

\* for ordem_a in range(1, q_aulas + 1): INSERT INTO edutech.aulas,
\* aulas_por_curso.setdefault(curso_id, []).append((aula_id, duracao))
criar_modulos_e_aulas_aula ==
    /\ curr.fase = "aula"
    /\ curr.ja < Len(range(1, curr.q_aulas + 1))
    /\ \E duracao \in Duracoes :
          LET ordem_a == range(1, curr.q_aulas + 1)[curr.ja + 1]
              aula_id == Len(curr.aulas) + 1
              linha   == [id |-> aula_id, modulo_id |-> curr.modulo_id,
                          ordem |-> ordem_a, duracao |-> duracao]
          IN  curr' = [curr EXCEPT
                         !.ja = @ + 1,
                         !.aulas = Append(@, linha),
                         !.aulas_por_curso =
                             SetDefaultAppend(@, curr.curso_ids[curr.i],
                                              <<aula_id, duracao>>)]
    /\ UNCHANGED <<orq, cat, mat, prog, aval>>

\* the lessons of the module are done: back to the loop over the modules
criar_modulos_e_aulas_fim_modulo ==
    /\ curr.fase = "aula"
    /\ curr.ja = Len(range(1, curr.q_aulas + 1))
    /\ curr' = [curr EXCEPT !.fase = "modulo"]
    /\ UNCHANGED <<orq, cat, mat, prog, aval>>

\* modulo_ids_por_curso[curso_id] = modulo_ids
criar_modulos_e_aulas_fim_curso ==
    /\ curr.fase = "modulo"
    /\ curr.jm = Len(range(1, curr.q_mod + 1))
    /\ curr' = [curr EXCEPT
                  !.fase = "curso",
                  !.modulo_ids_por_curso =
                      [c \in DOMAIN @ \cup {curr.curso_ids[curr.i]} |->
                          IF c = curr.curso_ids[curr.i] THEN curr.modulo_ids ELSE @[c]]]
    /\ UNCHANGED <<orq, cat, mat, prog, aval>>

\* return modulo_ids_por_curso, aulas_por_curso
criar_modulos_e_aulas_retorno ==
    /\ curr.fase = "curso"
    /\ curr.i = Len(curr.curso_ids)
    /\ curr' = [curr EXCEPT !.fase = "retorno"]
    /\ UNCHANGED <<orq, cat, mat, prog, aval>>

NextCur ==
    \/ criar_modulos_e_aulas_curso
    \/ criar_modulos_e_aulas_modulo
    \/ criar_modulos_e_aulas_aula
    \/ criar_modulos_e_aulas_fim_modulo
    \/ criar_modulos_e_aulas_fim_curso
    \/ criar_modulos_e_aulas_retorno

SpecCur == InitCur /\ [][NextCur]_vars

\* the rows of edutech.modulos of a course
ModulosDoCurso(curso_id) ==
    {j \in 1..Len(curr.modulos) : curr.modulos[j].curso_id = curso_id}

\* the rows of edutech.aulas of a module
AulasDoModulo(modulo_id) ==
    {j \in 1..Len(curr.aulas) : curr.aulas[j].modulo_id = modulo_id}

\* C11: for every course handed to criar_modulos_e_aulas and every choice
\* of the bounds, the order numbers of the course's modules are exactly
\* 1..(number of its modules), and for every module the order numbers of
\* its lessons are exactly 1..(number of its lessons): as many different
\* order numbers as rows, so no gap and no repeat.
C11_OrdemContigua ==
    /\ \A c \in Range(curr.curso_ids) :
          {curr.modulos[j].ordem : j \in ModulosDoCurso(c)}
              = 1..Cardinality(ModulosDoCurso(c))
    /\ \A mid \in 1..Len(curr.modulos) :
          {curr.aulas[j].ordem : j \in AulasDoModulo(curr.modulos[mid].id)}
              = 1..Cardinality(AulasDoModulo(curr.modulos[mid].id))

\* the call returned for two courses of two modules of two lessons each:
\* the numbering started again for the second course and for every module
C11_Witness ==
    /\ curr.fase = "retorno"
    /\ Len(curr.curso_ids) = 2
    /\ \A c \in Range(curr.curso_ids) : Cardinality(ModulosDoCurso(c)) = 2
    /\ \A mid \in 1..Len(curr.modulos) : Cardinality(AulasDoModulo(mid)) = 2

----------------------------------------------------------------------------
(* popular: the progress stage for courses without lessons *)

\* edutech.progresso_aulas as the transaction saw it when the progress
\* stage began: no stage before it writes the table, the reset empties it
ProgressoAntes == IF args.reset THEN 0 ELSE db_antes.progresso

\* C12: when every enrollment of the run is in a course for which the
\* curriculum stage recorded no lesson (module or lesson bounds of 0), the
\* progress stage raises no exception of its own, creates no progress row
\* (prog_rows = 0, the table as before the stage) and the run goes on to
\* the evaluations stage.  A failure of the database itself
\* (DatabaseError) is the one other way the stage can end.
C12_SemAulasSemProgresso ==
    (/\ Len(log) > 0
     /\ log[Len(log)] = "progresso"
     /\ pc \in {"avaliacoes", "except"}    \* the stage has just ended
     /\ erro # "DatabaseError"
     /\ \A i \in 1..Len(AulasDasMatriculas) : AulasDasMatriculas[i] = 0)
    => /\ pc = "avaliacoes"
       /\ erro = "none"
       /\ loc.prog_rows = 0
       /\ tx.progresso = ProgressoAntes

\* the progress stage has run for an enrollment in a course that has a
\* module and, the lesson bounds being 0, no lesson
C12_Witness ==
    /\ pc = "avaliacoes"
    /\ log[Len(log)] = "progresso"
    /\ loc.mat_ids # {}
    /\ \A i \in 1..Len(AulasDasMatriculas) : AulasDasMatriculas[i] = 0
    /\ args.max_aulas = 0
    /\ tx.modulos > (IF args.reset THEN 0 ELSE db_antes.modulos)
    /\ loc.prog_rows = 0

----------------------------------------------------------------------------
(* criar_avaliacoes: the date of an evaluation, checked under SpecAval *)

\* the evaluations this call of criar_avaliacoes has inserted
AvaliacoesCriadas ==
    IF aval.fase = "parado" THEN {}
    ELSE {aval.avaliacoes[i] : i \in (Len(aval.antes) + 1)..Len(aval.avaliacoes)}

\* data_conclusao of the enrollment an evaluation belongs to ({} for NULL)
ConclusaoDaMatricula(av) == aval.matriculas[av.matricula_id].data_c

\* C13 as the claim states it: the date of every evaluation created by
\* criar_avaliacoes is strictly later than the completion date of its
\* enrollment.
C13_DepoisDaConclusao ==
    \A av \in AvaliacoesCriadas :
        \A d \in ConclusaoDaMatricula(av) : av.data_av > d

\* C13 amended: the date of every evaluation created by criar_avaliacoes
\* is not earlier than the completion date of its enrollment: the same day
\* or later.
C13_NaoAntesDaConclusao ==
    \A av \in AvaliacoesCriadas :
        \A d \in ConclusaoDaMatricula(av) : av.data_av >= d

\* an evaluation was created on the very day its enrollment was completed
C13_Witness ==
    \E av \in AvaliacoesCriadas :
        /\ ConclusaoDaMatricula(av) # {}
        /\ \A d \in ConclusaoDaMatricula(av) : av.data_av = d

====
